---- MODULE Spec2Model ----
(***************************************************************************)
(* Model of the nextgen-api authenticated-request pipeline:                *)
(*   - NextGenOAuthClient (auth/oauth_client.py): the token cache, its     *)
(*     expiry test, the refresh call and get_auth_headers();               *)
(*   - BaseService (services/base_service.py): _make_request and           *)
(*     _handle_response;                                                   *)
(*   - NextGenClient (client/nextgen_client.py): construction, the master  *)
(*     property, test_connection(), authenticate(), get_client_info(),     *)
(*     close() and the context manager;                                    *)
(*   - NextGenConfig and load_config (config.py): the required fields.     *)
(* One NextGenOAuthClient instance is modelled (variable tm).  It is the   *)
(* oauth_client of the NextGenClient, and it is the oauth_client handed to *)
(* the directly constructed BaseService(config, oauth_client) whose        *)
(* _make_request is modelled.  Time is a discrete clock (variable now).    *)
(* Every handler is one atomic action; the HTTP responses it consumes are  *)
(* inputs drawn, in the order the code consumes them, from TokenResponses  *)
(* and DataResponses.  The library is synchronous and single-threaded: a   *)
(* call runs to completion and leaves its record in last; Return hands the *)
(* result to the caller, after which the next call (or a clock tick) can   *)
(* happen.                                                                 *)
(* The configuration (variable config) is fixed at construction.  Spec is  *)
(* the library under the default configuration; RequestSpec, UrlSpec and   *)
(* FormSpec are the same library constructed with other configurations and *)
(* called with other arguments (request bodies and headers, endpoint       *)
(* paths, service-method arguments).  ClientSpec is the NextGenClient,     *)
(* from the construction of its configuration to close(); ConcurrentSpec   *)
(* is get_auth_headers() called by two threads on one NextGenOAuthClient,  *)
(* one step per read or write of the shared token cache.                   *)
(***************************************************************************)
EXTENDS Integers, Sequences, FiniteSets, TLC

VARIABLES
    config,          \* NextGenConfig: the fields the modelled code reads
    tm,              \* NextGenOAuthClient: [_access_token, _token_expiration]
    now,             \* datetime.now()
    master_service,  \* NextGenClient._master_service
    sessions,        \* the requests.Session objects created so far
    callers,         \* the threads that call get_auth_headers() concurrently
    granted,         \* history: the successful refresh that left the state tm
                     \* holds, [at, expires_in], or None
    last             \* record of the call that has just completed, or Idle

vars == <<config, tm, now, master_service, sessions, callers, granted, last>>

----------------------------------------------------------------------------
(* Bounds *)

MaxTime == 2
MaxExpiresIn == 1
MaxList == 1
MaxPath == 3
MaxIdLen == 9

(* Program constants *)

DefaultExpiresIn == 3600
MaskLen == 8

----------------------------------------------------------------------------
(* Optional values: None is <<>>, a present value x is <<x>>. *)

None == <<>>
Some(x) == <<x>>

\* Python truthiness of an Optional[str]: None and "" are falsy.
Truthy(s) == s # None /\ s[1] # ""

Tokens == {"t1", "t2"}

----------------------------------------------------------------------------
(* Text.  A URL or a path is the sequence of its pieces: each "/" is a     *)
(* piece, and so is each run of characters between two slashes; the scheme *)
(* and host of a URL ("https://host") are one piece, Origin.  A header     *)
(* value is the sequence of the pieces it is formatted from.               *)

Origin == "https://nativeapi.nextgen.com"
Str(s) == <<s>>

\* str.lstrip('/')
RECURSIVE lstrip(_)
lstrip(s) == IF s # <<>> /\ Head(s) = "/" THEN lstrip(Tail(s)) ELSE s

\* str.split('/'): the segments, each a text.
RECURSIVE split(_)
split(s) ==
    IF s = <<>> THEN <<(<<>>)>>
    ELSE IF Head(s) = "/" THEN <<(<<>>)>> \o split(Tail(s))
    ELSE LET rest == split(Tail(s))
         IN  <<(<<Head(s)>> \o Head(rest))>> \o Tail(rest)

\* '/'.join(segments)
RECURSIVE join(_)
join(segments) ==
    IF segments = <<>> THEN <<>>
    ELSE IF Len(segments) = 1 THEN segments[1]
    ELSE segments[1] \o <<"/">> \o join(Tail(segments))

\* dict.update: the entries of g over those of f.
Update(f, g) ==
    [k \in DOMAIN f \cup DOMAIN g |-> IF k \in DOMAIN g THEN g[k] ELSE f[k]]

(* NextGenConfig: the fields the modelled code reads.  client_id is the     *)
(* sequence of its characters.  username and password are not fields of    *)
(* the dataclass; the token request reads them with                        *)
(* getattr(config, name, None), so None is "no such attribute".            *)

NextGenConfig(base_url, grant_type, username, password, x_ng_session_id) ==
    [client_id |-> <<"i", "d">>, client_secret |-> "secret", site_id |-> "site",
     base_url |-> base_url,
     token_url |-> <<Origin, "/", "token">>,
     grant_type |-> grant_type, username |-> username, password |-> password,
     x_ng_session_id |-> x_ng_session_id, timeout |-> 30, max_retries |-> 3,
     user_agent |-> "NextGenAPI-Python/1.0.0", accept |-> "*/*",
     accept_encoding |-> "gzip, deflate, br", connection |-> "keep-alive"]

\* The default base URL; its path /nge/prod/nge-api/api is written as the
\* one segment api.
DefaultBaseUrl == <<Origin, "/", "api">>

\* The dataclass defaults.
DefaultConfig ==
    NextGenConfig(DefaultBaseUrl, "client_credentials", None, None, None)

----------------------------------------------------------------------------
(* Responses of the token endpoint.                                        *)
(*   kind   "transport": requests raised RequestException, no response     *)
(*          "http":      a response with a status code                     *)
(*   body   "object":  a JSON object (access_token / expires_in below)     *)
(*          "invalid": not a JSON object (response.json() or .get raises)  *)
(*   access_token  None (key absent or null), Some("") or Some(token)      *)
(*   exp_kind  "absent" (no expires_in key), "bad" (a value timedelta      *)
(*             rejects, e.g. a string or null), "int" (expires_in below)   *)

TokenErrorStatuses == {401, 500}
ExpiresIns == (0 - 1)..MaxExpiresIn

TokenResp(k, s, b, a, ek, e) ==
    [kind |-> k, status |-> s, body |-> b, access_token |-> a,
     exp_kind |-> ek, expires_in |-> e]

TokenResponses ==
    {TokenResp("transport", 0, "invalid", None, "absent", 0)}
    \cup {TokenResp("http", s, "invalid", None, "absent", 0) : s \in TokenErrorStatuses}
    \cup {TokenResp("http", 200, "invalid", None, "absent", 0)}
    \cup {TokenResp("http", 200, "object", a, "absent", 0) : a \in {None, Some("")}}
    \cup {TokenResp("http", 200, "object", Some(t), "absent", 0) : t \in Tokens}
    \cup {TokenResp("http", 200, "object", Some(t), "bad", 0) : t \in Tokens}
    \cup {TokenResp("http", 200, "object", Some(t), "int", e) : t \in Tokens, e \in ExpiresIns}

(* Responses of a data endpoint.                                           *)
(*   kind   "timeout", "connection", "request": the requests exception     *)
(*          raised by session.request; "http": a response                  *)
(*   content_type  the response's Content-Type header                      *)
(*   body   "list" (a JSON value that is not an object: a list, its items  *)
(*          in items), "object" (a JSON object without 'message'),         *)
(*          "message" (a JSON object with 'message'), "text" (text that    *)
(*          is not JSON), "empty" (no body)                                *)

DataErrorStatuses == {401, 404, 500}
DataTransportKinds == {"timeout", "connection", "request"}

CodeNames == {"2012_condition_codes"}
Lists == UNION {[1..n -> CodeNames] : n \in 0..MaxList}

ContentTypes == {"application/json", "text/plain"}
JsonBodies == {"list", "object", "message"}
Bodies == JsonBodies \cup {"text", "empty"}

Response(k, s, ct, b, l) ==
    [kind |-> k, status |-> s, content_type |-> ct, body |-> b, items |-> l]

\* A response whose Content-Type says what its body is.
DataResp(k, s, b, l) ==
    Response(k, s, IF b \in JsonBodies THEN "application/json" ELSE "text/plain", b, l)

DataResponses ==
    {DataResp(k, 0, "text", <<>>) : k \in DataTransportKinds}
    \cup {DataResp("http", s, b, <<>>) : s \in DataErrorStatuses, b \in {"object", "text"}}
    \cup {DataResp("http", 200, b, <<>>) : b \in {"object", "text"}}
    \cup {DataResp("http", 200, "list", l) : l \in Lists}

\* Every status class, content type and body form.
DataStatuses == {200, 201, 302, 401, 403, 404, 418, 429, 500}

AllDataResponses ==
    {DataResp(k, 0, "text", <<>>) : k \in DataTransportKinds}
    \cup {Response("http", s, ct, b, <<>>) :
              s \in DataStatuses, ct \in ContentTypes, b \in Bodies \ {"list"}}
    \cup {Response("http", s, ct, "list", l) :
              s \in DataStatuses, ct \in ContentTypes, l \in Lists}

\* Placeholders for a response the code never reads.
Unused == TokenResp("unused", 0, "invalid", None, "absent", 0)
NoResp == DataResp("unused", 0, "text", <<>>)

----------------------------------------------------------------------------
(* Exceptions: the class name and the attributes set by                    *)
(* NextGenAPIError.__init__: status_code (default None), message and       *)
(* response_data (default {}).  An exception of another class (the         *)
(* AttributeError of a failed attribute lookup) has the defaults.          *)

\* A response_data value: {} ("empty"), {'raw_content': response.text}
\* ("raw_content") or the decoded JSON body ("json"), of the body given.
Data(kind, body, items) == [kind |-> kind, body |-> body, items |-> items]
NoData == Data("empty", "empty", <<>>)

\* self.response_data = response_data or {}: an empty list is {} too.
Error(type, status, message, data) ==
    [type |-> type, status_code |-> status, message |-> message,
     response_data |-> IF data.kind = "json" /\ data.body = "list" /\ data.items = <<>>
                       THEN NoData ELSE data]

Exc(type, status) == Error(type, status, "", NoData)
NoExc == Exc("none", None)
Raised(e) == e.type # "none"

----------------------------------------------------------------------------
(* NextGenOAuthClient *)

\* __init__: no token, no expiry.
OAuthInit == [_access_token |-> None, _token_expiration |-> None]

\* Variant: the expiry instant itself still counts as valid.
_is_token_expired_strict(t, clock) ==
    IF t._token_expiration = None
    THEN TRUE
    ELSE t._token_expiration[1] < clock

_is_token_expired(t, clock) ==
    IF t._token_expiration = None
    THEN TRUE
    ELSE t._token_expiration[1] <= clock

is_authenticated(t, clock) ==
    t._access_token # None /\ ~_is_token_expired(t, clock)

_should_refresh_token(t, clock) ==
    IF ~Truthy(t._access_token) \/ t._token_expiration = None
    THEN TRUE
    ELSE IF _is_token_expired(t, clock)
         THEN TRUE
         ELSE FALSE

\* Variant: a body without expires_in counts as expires_in 0.
expires_in_without_default(r) == r.expires_in

\* token_data.get('expires_in', 3600)
expires_in(r) == IF r.exp_kind = "absent" THEN DefaultExpiresIn ELSE r.expires_in

\* Variant: the cached pair is dropped before the token request is made.
_refresh_token_reset_first(t, r, clock) ==
    LET failed == [tm |-> [_access_token |-> None, _token_expiration |-> None],
                   exc |-> Exc("AuthenticationError", None)]
    IN  IF r.kind = "transport" \/ r.status # 200 \/ r.body # "object" THEN failed
        ELSE IF ~Truthy(r.access_token) \/ r.exp_kind = "bad" THEN failed
        ELSE [tm |-> [_access_token |-> r.access_token,
                      _token_expiration |-> Some(clock + expires_in(r))],
              exc |-> NoExc]

\* One call of _refresh_token against response r: the token state it leaves
\* and the exception it raises.  Every exception raised inside the try block
\* (the AuthenticationError for a non-200 status or a missing access_token,
\* the error of response.json(), the TypeError of timedelta) leaves through
\* an except clause as AuthenticationError, after the assignments made so far.
_refresh_token(t, r, clock) ==
    LET failed(s) == [tm |-> s, exc |-> Exc("AuthenticationError", None)]
    IN  IF r.kind = "transport" THEN failed(t)
        ELSE IF r.status # 200 THEN failed(t)
        ELSE IF r.body # "object" THEN failed(t)
        ELSE LET t1 == [t EXCEPT !._access_token = r.access_token]
             IN  IF ~Truthy(t1._access_token) THEN failed(t1)
                 ELSE IF r.exp_kind = "bad" THEN failed(t1)
                 ELSE [tm |-> [t1 EXCEPT !._token_expiration = Some(clock + expires_in(r))],
                       exc |-> NoExc]

\* One entry of the refresh log: the response, the token state before and
\* after, the exception.
RefreshEntry(t, r, res) == [resp |-> r, pre |-> t, post |-> res.tm, exc |-> res.exc]

\* What the access_token property hands back after the refresh res it made
\* from token state t with response r: the token state, the value returned,
\* the exception, the refresh made and the responses left unread.
AfterRefresh(t, r, rest, res) ==
    [tm |-> res.tm,
     value |-> IF Raised(res.exc) THEN None ELSE res.tm._access_token,
     exc |-> res.exc,
     refreshes |-> <<RefreshEntry(t, r, res)>>,
     rest |-> rest]

\* The access_token property, given the responses rs the token endpoint will
\* give (read in order).
access_token(t, rs, clock) ==
    IF _should_refresh_token(t, clock)
    THEN AfterRefresh(t, Head(rs), Tail(rs), _refresh_token(t, Head(rs), clock))
    ELSE [tm |-> t, value |-> t._access_token, exc |-> NoExc,
          refreshes |-> <<>>, rest |-> rs]

\* Variant: the session id header is added whenever a session id is set,
\* the empty one included.
AuthHeaders_any_session(v) ==
    [k \in {"Authorization"}
            \cup (IF config.x_ng_session_id # None THEN {"x-ng-sessionid"} ELSE {}) |->
        IF k = "Authorization"
        THEN <<"Bearer ">> \o (IF v = None THEN <<"None">> ELSE v)
        ELSE config.x_ng_session_id]

\* The dict get_auth_headers builds around the token value v: the f-string
\* 'Bearer {v}', and the session id if config.x_ng_session_id is truthy.
AuthHeaders(v) ==
    [k \in {"Authorization"}
            \cup (IF Truthy(config.x_ng_session_id) THEN {"x-ng-sessionid"} ELSE {}) |->
        IF k = "Authorization"
        THEN <<"Bearer ">> \o (IF v = None THEN <<"None">> ELSE v)
        ELSE config.x_ng_session_id]

\* get_auth_headers raising e after the property read a.
HeadersRaise(a, e) ==
    [tm |-> a.tm, headers |-> None, exc |-> e, refreshes |-> a.refreshes, rest |-> a.rest]

\* The header dict built from the second read a2 of the property (the first
\* read was a1).
HeadersBuilt(a1, a2) ==
    [tm |-> a2.tm,
     headers |-> IF Raised(a2.exc) THEN None ELSE Some(AuthHeaders(a2.value)),
     exc |-> a2.exc,
     refreshes |-> a1.refreshes \o a2.refreshes,
     rest |-> a2.rest]

\* get_auth_headers after its first read a1 of the property: the test of the
\* value, then the second read for the header value.
HeadersAfterTest(a1, clock) ==
    IF Raised(a1.exc) THEN HeadersRaise(a1, a1.exc)
    ELSE IF ~Truthy(a1.value) THEN HeadersRaise(a1, Exc("AuthenticationError", None))
    ELSE HeadersBuilt(a1, access_token(a1.tm, a1.rest, clock))

\* get_auth_headers: reads the access_token property twice, once for the
\* test and once for the header value.
get_auth_headers(t, rs, clock) == HeadersAfterTest(access_token(t, rs, clock), clock)

\* authenticate after its refresh res: an AuthenticationError is turned into
\* the return value False.
AuthenticateResult(t, r, res, clock) ==
    [tm |-> res.tm,
     value |-> IF Raised(res.exc) THEN FALSE ELSE is_authenticated(res.tm, clock),
     exc |-> NoExc,
     refreshes |-> <<RefreshEntry(t, r, res)>>]

\* NextGenOAuthClient.authenticate: one refresh.
authenticate(t, r, clock) == AuthenticateResult(t, r, _refresh_token(t, r, clock), clock)

\* Variant: nothing is dropped.
revoke_token_keeps_all(t) == t

\* Variant: only the token is dropped, the expiry stays.
revoke_token_keeps_expiry(t) == [t EXCEPT !._access_token = None]

revoke_token(t) == [t EXCEPT !._access_token = None, !._token_expiration = None]

----------------------------------------------------------------------------
(* The requests both classes send. *)

\* The default headers __init__ puts on a requests session.
SessionHeaders ==
    [k \in {"User-Agent", "Accept", "Accept-Encoding", "Connection"} |->
        Str(CASE k = "User-Agent" -> config.user_agent
              [] k = "Accept" -> config.accept
              [] k = "Accept-Encoding" -> config.accept_encoding
              [] OTHER -> config.connection)]

\* The params dict of _refresh_token: the form fields of the token request.
TokenParams ==
    IF /\ config.grant_type = "password"
       /\ Truthy(config.username)
       /\ Truthy(config.password)
    THEN [k \in {"client_id", "client_secret", "site_id", "grant_type",
                 "username", "password"} |->
             IF k \in {"username", "password"} THEN config[k][1] ELSE config[k]]
    ELSE [k \in {"client_id", "client_secret", "site_id", "grant_type"} |-> config[k]]

\* An argument list of _make_request.  data and json_data: whether a form
\* body (a non-empty dict) and a JSON body (not None) are given; headers:
\* the caller's additional headers, <<>> for None.
Call(method, endpoint, data, json_data, headers) ==
    [method |-> method, endpoint |-> endpoint, data |-> data,
     json_data |-> json_data, headers |-> headers]

NoHeaders == <<>>

\* GET /master/codes, as get_codes calls it.
GetCodesCall == Call("GET", <<"/", "master", "/", "codes">>, FALSE, FALSE, NoHeaders)

----------------------------------------------------------------------------
(* BaseService, constructed as BaseService(config, oauth_client) around    *)
(* the token manager tm.                                                   *)

\* urllib.parse.urljoin(base, url), for a base "https://host" + path and a
\* url that has no scheme, host, query or fragment.
Kept(seg) == seg # <<>>

\* bpath.split('/') without a last item that is not a directory
base_parts(bpath) ==
    LET parts == split(bpath)
    IN  IF parts[Len(parts)] # <<>>
        THEN SubSeq(parts, 1, Len(parts) - 1)
        ELSE parts

\* segments[1:-1] = filter(None, segments[1:-1])
Filtered(segments) ==
    IF Len(segments) < 2 THEN segments
    ELSE <<segments[1]>>
         \o SelectSeq(SubSeq(segments, 2, Len(segments) - 1), Kept)
         \o <<segments[Len(segments)]>>

\* the loop over the segments: '..' drops the last resolved segment, '.' is
\* skipped.
RECURSIVE resolve(_, _)
resolve(segments, resolved_path) ==
    IF segments = <<>> THEN resolved_path
    ELSE IF Head(segments) = <<"..">>
         THEN resolve(Tail(segments),
                      IF resolved_path = <<>> THEN resolved_path
                      ELSE SubSeq(resolved_path, 1, Len(resolved_path) - 1))
    ELSE IF Head(segments) = <<".">> THEN resolve(Tail(segments), resolved_path)
    ELSE resolve(Tail(segments), Append(resolved_path, Head(segments)))

Resolved(segments) ==
    IF segments[Len(segments)] \in {<<".">>, <<"..">>}
    THEN Append(resolve(segments, <<>>), <<>>)
    ELSE resolve(segments, <<>>)

\* '/'.join(resolved_path) or '/', under the host
Rooted(path) ==
    IF path = <<>> THEN <<"/">>
    ELSE IF Head(path) # "/" THEN <<"/">> \o path
    ELSE path

urljoin(base, url) ==
    IF url = <<>> THEN base
    ELSE <<Head(base)>>
         \o Rooted(join(Resolved(IF Head(url) = "/"
                                 THEN split(url)
                                 ELSE Filtered(base_parts(Tail(base)) \o split(url)))))

_build_url(base_url, endpoint) == urljoin(base_url \o <<"/">>, lstrip(endpoint))

\* What session.request sends as headers: the request's headers over the
\* session's, and the Content-Type of the body unless one is given already.
\* A form body takes the place of a JSON body.
BodyType(c) ==
    IF c.data THEN Some(Str("application/x-www-form-urlencoded"))
    ELSE IF c.json_data THEN Some(Str("application/json"))
    ELSE None

Prepared(c, merged) ==
    IF BodyType(c) # None /\ "Content-Type" \notin DOMAIN merged
    THEN Update(merged, [k \in {"Content-Type"} |-> BodyType(c)[1]])
    ELSE merged

\* HTTP events of one operation, in the order they are sent.
TokenPost ==
    [to |-> "token", method |-> "POST", url |-> config.token_url,
     headers |-> Update(SessionHeaders,
                        [k \in {"Content-Type"} |->
                            Str("application/x-www-form-urlencoded")]),
     fields |-> TokenParams]
DataRequest(c, headers) ==
    [to |-> "data", method |-> c.method, url |-> _build_url(config.base_url, c.endpoint),
     headers |-> Prepared(c, Update(SessionHeaders, headers)),
     json |-> c.json_data /\ ~c.data]
TokenPosts(refreshes) == [i \in 1..Len(refreshes) |-> TokenPost]

\* A decoded payload.
Payload(k, l) == [kind |-> k, items |-> l]
NoPayload == Payload("none", <<>>)

\* headers.update(additional_headers) on the result h of get_auth_headers.
WithAdditional(c, h) ==
    IF Raised(h.exc) \/ c.headers = NoHeaders
    THEN h
    ELSE [h EXCEPT !.headers = Some(Update(h.headers[1], c.headers))]

_get_request_headers(c, t, rs, clock) == WithAdditional(c, get_auth_headers(t, rs, clock))

\* Variant: a body that is not JSON is handed back as it is.
json_never_fails(d) == FALSE

\* response.json() raises ValueError: the body is not JSON.  The response's
\* Content-Type is not consulted.
json_fails(d) == d.body \notin JsonBodies

\* The error_data of _handle_response: the decoded body, or the raw text
\* when decoding fails.
error_data(d) ==
    IF json_fails(d)
    THEN Data("raw_content", d.body, d.items)
    ELSE Data("json", d.body, d.items)

\* _handle_response for response d: the token state it leaves, the payload it
\* returns or the exception it raises.
_handle_response(t, d) ==
    LET raise(s, type, message) ==
            [tm |-> s, payload |-> NoPayload,
             exc |-> Error(type, Some(d.status), message, error_data(d))]
        \* error_data.get('message', default), then the raise
        lookup(type) ==
            IF d.body = "list"
            THEN [tm |-> t, payload |-> NoPayload, exc |-> Exc("AttributeError", None)]
            ELSE raise(t, type, IF d.body = "message" THEN "server" ELSE "generic")
    IN  IF 200 <= d.status /\ d.status < 300
        THEN IF json_fails(d)
             THEN [tm |-> t, payload |-> NoPayload,
                   exc |-> Error("NextGenAPIError", Some(d.status), "Invalid JSON response",
                                 Data("raw_content", d.body, d.items))]
             ELSE [tm |-> t, payload |-> Payload(d.body, d.items), exc |-> NoExc]
        ELSE IF d.status = 401
             THEN raise(revoke_token(t), "ClientError", "Authentication failed")
        ELSE IF d.status = 403 THEN raise(t, "ClientError", "Access forbidden")
        ELSE IF d.status = 404 THEN raise(t, "ClientError", "Resource not found")
        ELSE IF d.status = 429 THEN raise(t, "RateLimitError", "Rate limit exceeded")
        ELSE IF 400 <= d.status /\ d.status < 500 THEN lookup("ClientError")
        ELSE IF 500 <= d.status /\ d.status < 600 THEN lookup("ServerError")
        ELSE raise(t, "NextGenAPIError", "Unexpected response status")

\* The result of _make_request: the outcome r of the last step, after the
\* header step h and the HTTP events http.
RequestResult(h, http, r) ==
    [tm |-> r.tm, payload |-> r.payload, exc |-> r.exc,
     refreshes |-> h.refreshes, http |-> http, rest |-> h.rest]

\* Variant: a 401 is answered by sending the request a second time.
Send_again_on_401(c, h, d) ==
    IF d.kind \in DataTransportKinds
    THEN RequestResult(h, TokenPosts(h.refreshes) \o <<DataRequest(c, h.headers[1])>>,
                       [tm |-> h.tm, payload |-> NoPayload,
                        exc |-> Exc("NetworkError", None)])
    ELSE IF d.status = 401
    THEN RequestResult(h, TokenPosts(h.refreshes)
                          \o <<DataRequest(c, h.headers[1]), DataRequest(c, h.headers[1])>>,
                       _handle_response(h.tm, d))
    ELSE RequestResult(h, TokenPosts(h.refreshes) \o <<DataRequest(c, h.headers[1])>>,
                       _handle_response(h.tm, d))

\* Variant: a transport failure drops the cached token.
Send_revokes_on_failure(c, h, d) ==
    IF d.kind \in DataTransportKinds
    THEN RequestResult(h, TokenPosts(h.refreshes) \o <<DataRequest(c, h.headers[1])>>,
                       [tm |-> revoke_token(h.tm), payload |-> NoPayload,
                        exc |-> Exc("NetworkError", None)])
    ELSE RequestResult(h, TokenPosts(h.refreshes) \o <<DataRequest(c, h.headers[1])>>,
                       _handle_response(h.tm, d))

\* The try block of _make_request called as c, with the headers of step h:
\* one session.request, answered by d, and the handling of the response.
Send(c, h, d) ==
    IF d.kind \in DataTransportKinds
    THEN RequestResult(h, TokenPosts(h.refreshes) \o <<DataRequest(c, h.headers[1])>>,
                       [tm |-> h.tm, payload |-> NoPayload,
                        exc |-> Exc("NetworkError", None)])
    ELSE RequestResult(h, TokenPosts(h.refreshes) \o <<DataRequest(c, h.headers[1])>>,
                       _handle_response(h.tm, d))

\* Variant: the header step runs inside the try block, and its exception
\* leaves as NetworkError.
AfterHeaders_inside_try(c, h, d) ==
    IF Raised(h.exc)
    THEN RequestResult(h, TokenPosts(h.refreshes),
                       [tm |-> h.tm, payload |-> NoPayload,
                        exc |-> Exc("NetworkError", None)])
    ELSE Send(c, h, d)

\* _make_request after its header step h: an exception of that step leaves
\* before anything is sent.
AfterHeaders(c, h, d) ==
    IF Raised(h.exc)
    THEN RequestResult(h, TokenPosts(h.refreshes),
                       [tm |-> h.tm, payload |-> NoPayload, exc |-> h.exc])
    ELSE Send(c, h, d)

\* _make_request(method, endpoint, ...) with the arguments c: the URL and the
\* headers first, then the request.
_make_request(c, t, rs, d, clock) ==
    AfterHeaders(c, _get_request_headers(c, t, rs, clock), d)

----------------------------------------------------------------------------
(* MasterService and NextGenClient *)

\* The attributes of the two kinds of object handed to BaseService.__init__
\* as its config argument.
ConfigAttrs == {"client_id", "client_secret", "site_id", "base_url", "token_url",
                "grant_type", "x_ng_session_id", "timeout", "verify_ssl",
                "follow_redirects", "user_agent", "accept", "accept_encoding",
                "connection"}
ClientAttrs == {"config", "oauth_client", "_master_service", "_auth_service"}

\* NextGenOAuthClient.__init__ creates its session, then reads the default
\* headers from its config.  opened: the sessions created, by attribute.
OAuthNew(attrs) ==
    IF {"user_agent", "accept", "accept_encoding", "connection"} \subseteq attrs
    THEN [oauth |-> Some(OAuthInit), exc |-> NoExc, opened |-> {"oauth_client._session"}]
    ELSE [oauth |-> None, exc |-> Exc("AttributeError", None),
          opened |-> {"oauth_client._session"}]

\* BaseService.__init__(config, oauth_client): a service keeps the oauth
\* client it is given, or else builds its own from config.  own is the token
\* state of a service-built oauth client, None for a service that uses tm.
BaseServiceNew(attrs, oauth_client_given) ==
    IF oauth_client_given
    THEN [service |-> Some([own |-> None]), exc |-> NoExc, opened |-> {"_session"}]
    ELSE IF Raised(OAuthNew(attrs).exc)
         THEN [service |-> None, exc |-> OAuthNew(attrs).exc,
               opened |-> OAuthNew(attrs).opened]
         ELSE [service |-> Some([own |-> OAuthNew(attrs).oauth]), exc |-> NoExc,
               opened |-> OAuthNew(attrs).opened \cup {"_session"}]

\* MasterService.__init__(client): super().__init__(client), the client
\* object in the place of config and no oauth_client.
MasterServiceNew == BaseServiceNew(ClientAttrs, FALSE)

\* The sessions, by the object that created them (the client, the service
\* constructed directly, the service of the master property) and attribute.
\* A session is "open" from its creation until close() is called on it.
SessionOwners == {"client", "service", "master"}
SessionAttrs == {"oauth_client._session", "_session"}
NoSessions == [n \in SessionOwners \X SessionAttrs |-> "none"]
Opened(s, owner, attrs) ==
    [n \in DOMAIN s |-> IF n[1] = owner /\ n[2] \in attrs THEN "open" ELSE s[n]]

\* The sessions after a read of the master property.
AfterMaster(ms, s) ==
    IF ms = None THEN Opened(s, "master", MasterServiceNew.opened) ELSE s

\* NextGenClient.master: builds the service on first use.
master(ms) ==
    IF ms = None
    THEN [master_service |-> MasterServiceNew.service, exc |-> MasterServiceNew.exc]
    ELSE [master_service |-> ms, exc |-> NoExc]

\* MasterCodesResponse.from_api_response
from_api_response(items) == [codes |-> items, total_count |-> Len(items)]
NoCodes == [codes |-> <<>>, total_count |-> 0 - 1]

\* The token state a service works on: its own oauth client's, or tm's.
ServiceTm(svc, t) == IF svc.own = None THEN t ELSE svc.own[1]

\* get_codes after its request m: a list is expected and converted.
CodesResult(svc, t, m) ==
    [tm |-> IF svc.own = None THEN m.tm ELSE t,
     service |-> Some([own |-> IF svc.own = None THEN None ELSE Some(m.tm)]),
     codes |-> IF ~Raised(m.exc) /\ m.payload.kind = "list"
               THEN from_api_response(m.payload.items) ELSE NoCodes,
     exc |-> IF Raised(m.exc) THEN m.exc
             ELSE IF m.payload.kind # "list" THEN Exc("NextGenAPIError", None)
             ELSE NoExc,
     http |-> m.http, refreshes |-> m.refreshes, rest |-> m.rest]

\* MasterService.get_codes on service svc: GET /master/codes.
get_codes(svc, t, rs, d, clock) ==
    CodesResult(svc, t, _make_request(GetCodesCall, ServiceTm(svc, t), rs, d, clock))

\* client.master.get_codes() after the property read p.
ViaMaster(p, t, rs, d, clock) ==
    IF Raised(p.exc)
    THEN [tm |-> t, service |-> p.master_service, codes |-> NoCodes,
          exc |-> p.exc, http |-> <<>>, refreshes |-> <<>>, rest |-> rs]
    ELSE get_codes(p.master_service[1], t, rs, d, clock)

\* client.master.get_codes()
client_get_codes(ms, t, rs, d, clock) == ViaMaster(master(ms), t, rs, d, clock)

\* test_connection after the call g: any exception becomes False.
Downgrade(g) ==
    [tm |-> g.tm, service |-> g.service, value |-> ~Raised(g.exc),
     http |-> g.http, refreshes |-> g.refreshes, rest |-> g.rest]

\* NextGenClient.test_connection
test_connection(ms, t, rs, d, clock) == Downgrade(client_get_codes(ms, t, rs, d, clock))

----------------------------------------------------------------------------
(* The methods of MasterService and AuthService that take a required       *)
(* argument.  a1 is the first required argument, a2 the second one (the    *)
(* response_data of verify_identity_challenge, the verification_code of    *)
(* verify_mfa_code, the mfa_method of initiate_mfa); an argument is None,  *)
(* Some("") (empty: '' or {}) or Some(text).                               *)

MasterMethods == {"get_code_details", "search_codes"}
AuthMethods ==
    {"verify_identity_challenge", "get_challenge_status", "initiate_mfa",
     "verify_mfa_code", "get_auth_methods", "validate_session", "logout_session"}
ServiceMethods == MasterMethods \cup AuthMethods

MfaMethods == {"sms", "email", "app", "voice"}

\* Variant: no argument is checked.
validation_skipped(method, a1, a2) == NoExc

\* The checks at the head of a method: the ValidationError they raise.
validation(method, a1, a2) ==
    IF ~Truthy(a1) THEN Exc("ValidationError", None)
    ELSE IF method \in {"verify_identity_challenge", "verify_mfa_code"} /\ ~Truthy(a2)
         THEN Exc("ValidationError", None)
    ELSE IF method = "initiate_mfa" /\ a2 \notin {Some(m) : m \in MfaMethods}
         THEN Exc("ValidationError", None)
    ELSE NoExc

\* An argument formatted into an endpoint path.
Formatted(a) == IF a = None THEN "None" ELSE a[1]

\* The endpoint f-string of a method.
Endpoint(method, a1) ==
    CASE method \in MasterMethods ->
            <<"/", "master", "/", "codes", "/", Formatted(a1)>>
      [] method = "verify_identity_challenge" ->
            <<"/", "auth-services", "/", "identrust-mas", "/", "verify-challenge",
              "/", Formatted(a1)>>
      [] method = "get_challenge_status" ->
            <<"/", "auth-services", "/", "identrust-mas", "/", "challenge-status",
              "/", Formatted(a1)>>
      [] method = "initiate_mfa" -> <<"/", "auth-services", "/", "mfa", "/", "initiate">>
      [] method = "verify_mfa_code" -> <<"/", "auth-services", "/", "mfa", "/", "verify">>
      [] method = "get_auth_methods" ->
            <<"/", "auth-services", "/", "methods", "/", Formatted(a1)>>
      [] method = "validate_session" ->
            <<"/", "auth-services", "/", "session", "/", "validate">>
      [] OTHER -> <<"/", "auth-services", "/", "session", "/", "logout">>

\* The _make_request call of a method: GET, or POST with a JSON payload.
ServiceCall(method, a1) ==
    IF method \in MasterMethods \cup {"get_challenge_status", "get_auth_methods"}
    THEN Call("GET", Endpoint(method, a1), FALSE, FALSE, NoHeaders)
    ELSE Call("POST", Endpoint(method, a1), FALSE, TRUE, NoHeaders)

\* What a method returns for the payload of its request: the code methods
\* and get_auth_methods return a list (empty for a payload that is no
\* list), logout_session a boolean, the others the payload.
Returned(method, payload) ==
    IF method \in MasterMethods \cup {"get_auth_methods"}
    THEN IF payload.kind = "list" THEN payload ELSE Payload("list", <<>>)
    ELSE IF method = "logout_session" THEN Payload("bool", <<>>)
    ELSE payload

\* A method after its request m.
MethodResult(method, m) ==
    [tm |-> m.tm,
     payload |-> IF Raised(m.exc) THEN NoPayload ELSE Returned(method, m.payload),
     exc |-> m.exc, refreshes |-> m.refreshes, http |-> m.http, rest |-> m.rest]

\* A method after its checks v: a ValidationError leaves at once.
AfterValidation(v, method, a1, t, rs, d, clock) ==
    IF Raised(v)
    THEN [tm |-> t, payload |-> NoPayload, exc |-> v,
          refreshes |-> <<>>, http |-> <<>>, rest |-> rs]
    ELSE MethodResult(method, _make_request(ServiceCall(method, a1), t, rs, d, clock))

service_method(method, a1, a2, t, rs, d, clock) ==
    AfterValidation(validation(method, a1, a2), method, a1, t, rs, d, clock)

----------------------------------------------------------------------------
(* The responses an operation reads.  An operation is given a script of    *)
(* two token responses and one data response; an entry it never reads is   *)
(* the placeholder, so that no behaviour differs only in an unread input.  *)

TokenInputs == TokenResponses \cup {Unused}
DataInputs == DataResponses \cup {NoResp}

\* The token endpoint of a client: a transport failure, a refusal, a body
\* without access_token, or the token t1.
ClientTokenResponses ==
    {TokenResp("transport", 0, "invalid", None, "absent", 0),
     TokenResp("http", 500, "invalid", None, "absent", 0),
     TokenResp("http", 200, "object", None, "absent", 0)}
    \cup {TokenResp("http", 200, "object", Some("t1"), "int", e) : e \in 0..MaxExpiresIn}

ClientTokenInputs == ClientTokenResponses \cup {Unused}

Reads(rest) == 2 - Len(rest)

\* The script rs holds a response exactly where the operation read one.
ReadsAll(rs, rest) == \A i \in 1..2 : (rs[i] # Unused) <=> (i <= Reads(rest))

Sends(http) == \E i \in 1..Len(http) : http[i].to = "data"

\* d is a response exactly when a data request was sent.
Answers(d, http) == (d # NoResp) <=> Sends(http)

----------------------------------------------------------------------------
(* The state machine *)

Last(op, pre, exc, value, headers, codes, refreshes, http, data) ==
    [op |-> op, pre |-> pre, lease |-> granted, exc |-> exc, value |-> value,
     headers |-> headers, codes |-> codes, refreshes |-> refreshes,
     http |-> http, data |-> data]

Idle == [op |-> "idle"]

\* The history variable after a call that made the refreshes given and left
\* the token state after: the last successful refresh whose result is the
\* state left; otherwise unchanged with the state, and None once the state
\* was changed by anything else.
Granted(refreshes, after) ==
    LET ok == {i \in 1..Len(refreshes) :
                  ~Raised(refreshes[i].exc) /\ refreshes[i].post = after}
        i == CHOOSE k \in ok : \A j \in ok : j <= k
    IN  IF ok # {}
        THEN Some([at |-> now, expires_in |-> expires_in(refreshes[i].resp)])
        ELSE IF after = tm THEN granted ELSE None

\* The threads that may call into the token manager at the same time, and
\* a thread that is in no call.
Callers == {"A", "B"}
NotCalling ==
    [pc |-> "idle", read |-> 0, resp |-> Unused, posts |-> <<>>, refreshed |-> <<>>,
     value |-> None, headers |-> None, exc |-> NoExc]
NoCallers == [c \in Callers |-> NotCalling]

\* No configuration object: its construction raised.
NoConfig == [constructed |-> FALSE]

\* A NextGenClient exists.
Built == config # NoConfig

\* The state after construction with configuration cfg.
Constructed(cfg) ==
    /\ config = cfg
    /\ tm = OAuthInit
    /\ now = 0
    /\ master_service = None
    /\ sessions = Opened(Opened(NoSessions, "client", OAuthNew(ConfigAttrs).opened),
                          "service", BaseServiceNew(ConfigAttrs, TRUE).opened)
    /\ callers = NoCallers
    /\ granted = None
    /\ last = Idle

Init == Constructed(DefaultConfig)

\* The state after a call on the token manager or the service, with result g.
Completes(op, g, value, headers, http, d) ==
    /\ tm' = g.tm
    /\ granted' = Granted(g.refreshes, g.tm)
    /\ last' = Last(op, tm, g.exc, value, headers, NoCodes, g.refreshes, http, d)
    /\ UNCHANGED <<config, now, master_service, sessions, callers>>

\* The state after a call on the client, with result g.
ClientCompletes(op, g, exc, value, codes, d) ==
    /\ tm' = g.tm
    /\ granted' = Granted(g.refreshes, g.tm)
    /\ master_service' = g.service
    /\ sessions' = AfterMaster(master_service, sessions)
    /\ last' = Last(op, tm, exc, value, None, codes, g.refreshes, g.http, d)
    /\ UNCHANGED <<config, now, callers>>

GetAuthHeadersDone(rs, g) ==
    /\ ReadsAll(rs, g.rest)
    /\ Completes("get_auth_headers", g, FALSE, g.headers, TokenPosts(g.refreshes), NoResp)

\* oauth_client.get_auth_headers()
GetAuthHeaders ==
    /\ last = Idle
    /\ \E r1, r2 \in TokenInputs :
        GetAuthHeadersDone(<<r1, r2>>, get_auth_headers(tm, <<r1, r2>>, now))

AuthenticateDone(a) ==
    Completes("authenticate", a, a.value, None, TokenPosts(a.refreshes), NoResp)

\* oauth_client.authenticate()
Authenticate ==
    /\ last = Idle
    /\ \E r \in TokenResponses : AuthenticateDone(authenticate(tm, r, now))

\* oauth_client.revoke_token()
RevokeToken ==
    /\ last = Idle
    /\ tm' = revoke_token(tm)
    /\ granted' = Granted(<<>>, revoke_token(tm))
    /\ last' = Last("revoke_token", tm, NoExc, FALSE, None, NoCodes, <<>>, <<>>, NoResp)
    /\ UNCHANGED <<config, now, master_service, sessions, callers>>

\* client.is_authenticated
IsAuthenticated ==
    /\ last = Idle
    /\ last' = Last("is_authenticated", tm, NoExc, is_authenticated(tm, now), None,
                    NoCodes, <<>>, <<>>, NoResp)
    /\ UNCHANGED <<config, tm, now, master_service, sessions, granted, callers>>

MakeRequestDone(rs, d, m) ==
    /\ ReadsAll(rs, m.rest)
    /\ Answers(d, m.http)
    /\ Completes("make_request", m, FALSE, None, m.http, d)

\* service._make_request(method, endpoint)
MakeRequest ==
    /\ last = Idle
    /\ \E r1, r2 \in TokenInputs, d \in DataInputs :
        MakeRequestDone(<<r1, r2>>, d, _make_request(GetCodesCall, tm, <<r1, r2>>, d, now))

ClientGetCodesDone(rs, d, g) ==
    /\ ReadsAll(rs, g.rest)
    /\ Answers(d, g.http)
    /\ ClientCompletes("client_get_codes", g, g.exc, FALSE, g.codes, d)

\* client.master.get_codes()
ClientGetCodes ==
    /\ last = Idle
    /\ Built
    /\ \E r1, r2 \in ClientTokenInputs, d \in DataInputs :
        ClientGetCodesDone(<<r1, r2>>, d,
                           client_get_codes(master_service, tm, <<r1, r2>>, d, now))

TestConnectionDone(rs, d, c) ==
    /\ ReadsAll(rs, c.rest)
    /\ Answers(d, c.http)
    /\ ClientCompletes("test_connection", c, NoExc, c.value, NoCodes, d)

\* client.test_connection()
TestConnection ==
    /\ last = Idle
    /\ Built
    /\ \E r1, r2 \in ClientTokenInputs, d \in DataInputs :
        TestConnectionDone(<<r1, r2>>, d,
                           test_connection(master_service, tm, <<r1, r2>>, d, now))

\* The clock advances.
Tick ==
    /\ last = Idle
    /\ now < MaxTime
    /\ now' = now + 1
    /\ UNCHANGED <<config, tm, master_service, sessions, granted, last, callers>>

\* The call that has just completed returns to its caller.
Return ==
    /\ last # Idle
    /\ last' = Idle
    /\ UNCHANGED <<config, tm, now, master_service, sessions, granted, callers>>

Next ==
    \/ GetAuthHeaders
    \/ Authenticate
    \/ RevokeToken
    \/ IsAuthenticated
    \/ MakeRequest
    \/ Tick
    \/ Return

Spec == Init /\ [][Next]_vars

----------------------------------------------------------------------------
(* RequestSpec: a service constructed around tm under a configuration with *)
(* or without a session id, whose _make_request is called with a body and  *)
(* with additional headers, and answered with every kind of response, and  *)
(* whose service methods are called with valid and invalid arguments.  The *)
(* token endpoint refuses, issues an empty token, or issues the token t1.  *)

SessionIds == {None, Some(""), Some("s1")}

RequestTokenResponses ==
    {TokenResp("http", 500, "invalid", None, "absent", 0),
     TokenResp("http", 200, "object", Some(""), "absent", 0)}
    \cup {TokenResp("http", 200, "object", Some("t1"), "int", e) : e \in 0..MaxExpiresIn}

RequestTokenInputs == RequestTokenResponses \cup {Unused}

\* The headers a caller passes: up to two of these names, with the caller's
\* value.
CallerNames ==
    {"Authorization", "x-ng-sessionid", "Content-Type", "User-Agent", "X-Request-Id"}
CallerHeaders ==
    {[k \in names |-> Str("caller")] :
        names \in {n \in SUBSET CallerNames : Cardinality(n) <= 2}}

Calls ==
    {Call("POST", <<"/", "master", "/", "codes">>, data, json_data, headers) :
        data \in BOOLEAN, json_data \in BOOLEAN, headers \in CallerHeaders}

\* The calls made and the responses they get: the plain GET against every
\* kind of response, and every call against a 200 with a JSON object.
RequestInputs ==
    ({GetCodesCall} \X (AllDataResponses \cup {NoResp}))
    \cup (Calls \X {DataResp("http", 200, "object", <<>>), NoResp})

RequestInit == \E sid \in SessionIds :
    Constructed([DefaultConfig EXCEPT !.x_ng_session_id = sid])

\* The record of a _make_request call c with result m.
RequestRecord(c, m, d) ==
    [op |-> "make_request", pre |-> tm, lease |-> granted, exc |-> m.exc,
     value |-> FALSE, headers |-> None, codes |-> NoCodes,
     refreshes |-> m.refreshes, http |-> m.http, data |-> d,
     call |-> c, payload |-> m.payload]

MakeRequestWithDone(c, rs, d, m) ==
    /\ ReadsAll(rs, m.rest)
    /\ Answers(d, m.http)
    /\ tm' = m.tm
    /\ granted' = Granted(m.refreshes, m.tm)
    /\ last' = RequestRecord(c, m, d)
    /\ UNCHANGED <<config, now, master_service, sessions, callers>>

\* service._make_request(method, endpoint, data, json_data, headers)
MakeRequestWith ==
    /\ last = Idle
    /\ \E r1, r2 \in RequestTokenInputs, i \in RequestInputs :
        MakeRequestWithDone(i[1], <<r1, r2>>, i[2],
                            _make_request(i[1], tm, <<r1, r2>>, i[2], now))

\* The arguments the service methods are called with.
ArgValues == {None, Some(""), Some("x")}
SecondArgs(method) ==
    IF method \in {"verify_identity_challenge", "verify_mfa_code"} THEN ArgValues
    ELSE IF method = "initiate_mfa" THEN {Some(m) : m \in MfaMethods \cup {"fax"}}
    ELSE {None}

ServiceResponses ==
    {DataResp("http", 200, "object", <<>>), DataResp("http", 404, "object", <<>>)}
    \cup {DataResp("http", 200, "list", l) : l \in Lists}

ServiceMethodDone(method, a1, a2, rs, d, g) ==
    /\ ReadsAll(rs, g.rest)
    /\ Answers(d, g.http)
    /\ tm' = g.tm
    /\ granted' = Granted(g.refreshes, g.tm)
    /\ last' = [op |-> "service_method", method |-> method, args |-> <<a1, a2>>,
                pre |-> tm, lease |-> granted, exc |-> g.exc, value |-> FALSE,
                headers |-> None, codes |-> NoCodes, refreshes |-> g.refreshes,
                http |-> g.http, data |-> d, payload |-> g.payload]
    /\ UNCHANGED <<config, now, master_service, sessions, callers>>

\* service.get_code_details(...), ..., service.logout_session(...)
ServiceMethod ==
    /\ last = Idle
    /\ \E method \in ServiceMethods, a1 \in ArgValues :
       \E a2 \in SecondArgs(method), r1, r2 \in RequestTokenInputs,
          d \in ServiceResponses \cup {NoResp} :
        ServiceMethodDone(method, a1, a2, <<r1, r2>>, d,
                          service_method(method, a1, a2, tm, <<r1, r2>>, d, now))

RequestNext ==
    \/ MakeRequestWith
    \/ ServiceMethod
    \/ Tick
    \/ Return

RequestSpec == RequestInit /\ [][RequestNext]_vars

----------------------------------------------------------------------------
(* UrlSpec: services constructed with any base URL, whose _build_url is    *)
(* called with any endpoint path.                                          *)

\* Texts of at most MaxPath pieces.
Texts(pieces) == UNION {[1..n -> pieces] : n \in 0..MaxPath}

\* Base URLs: the host alone or with a path, with or without trailing
\* slashes.
BaseUrls == {<<Origin>> \o path : path \in {q \in Texts({"/", "api"}) : q = <<>> \/ q[1] = "/"}}

\* Endpoint paths, with and without leading slashes and dot segments.
Endpoints == Texts({"/", "codes", ".."})

UrlInit == \E base_url \in BaseUrls :
    Constructed([DefaultConfig EXCEPT !.base_url = base_url])

\* service._build_url(endpoint)
BuildUrl ==
    /\ last = Idle
    /\ \E endpoint \in Endpoints :
        last' = [op |-> "_build_url", endpoint |-> endpoint,
                 url |-> _build_url(config.base_url, endpoint)]
    /\ UNCHANGED <<config, tm, now, master_service, sessions, granted, callers>>

UrlNext ==
    \/ BuildUrl
    \/ Return

UrlSpec == UrlInit /\ [][UrlNext]_vars

----------------------------------------------------------------------------
(* FormSpec: token managers constructed with either grant type, and with   *)
(* or without username and password attributes on the configuration.       *)

GrantTypes == {"client_credentials", "password"}
Credentials == {None, Some(""), Some("user")}

FormInit == \E grant_type \in GrantTypes, username, password \in Credentials :
    Constructed([DefaultConfig EXCEPT !.grant_type = grant_type,
                                      !.username = username,
                                      !.password = password])

FormNext ==
    \/ Authenticate
    \/ Tick
    \/ Return

FormSpec == FormInit /\ [][FormNext]_vars

----------------------------------------------------------------------------
(* ClientSpec: a NextGenClient constructed from any configuration values,  *)
(* given as NextGenConfig(...) or read from the environment, and the calls *)
(* on the client.                                                          *)

RequiredFields ==
    {"client_id", "client_secret", "site_id", "base_url", "token_url", "grant_type"}

\* The empty value of a field: the empty string.
EmptyValue(f) == IF f \in {"client_id", "base_url", "token_url"} THEN <<>> ELSE ""

\* Client ids of one and of MaskLen characters, and longer ones.
ClientIds == {[i \in 1..n |-> "c"] : n \in {1} \cup (MaskLen..MaxIdLen)}

\* The values a configuration is constructed from: every field given, or one
\* required field empty.
ConfigArgs ==
    {[DefaultConfig EXCEPT !.client_id = id] : id \in ClientIds}
    \cup {[DefaultConfig EXCEPT !.client_id = id, ![f] = EmptyValue(f)] :
              id \in ClientIds, f \in RequiredFields}

\* NextGenConfig.__post_init__: the ValueError it raises.
__post_init__(args) ==
    IF args.client_id = <<>> THEN Exc("ValueError", None)
    ELSE IF args.client_secret = "" THEN Exc("ValueError", None)
    ELSE IF args.site_id = "" THEN Exc("ValueError", None)
    ELSE NoExc

\* NextGenConfig(**args)
NextGenConfigNew(args) ==
    [config |-> IF Raised(__post_init__(args)) THEN NoConfig ELSE args,
     exc |-> __post_init__(args)]

\* load_config() in an environment that holds the values env.
load_config(env) ==
    IF env.client_id = <<>> \/ env.client_secret = "" \/ env.site_id = ""
    THEN [config |-> NoConfig, exc |-> Exc("ValueError", None)]
    ELSE NextGenConfigNew(env)

\* NextGenClient.__init__ with the configuration step c done inside its try
\* block (wrapped: config is None and get_config() loads it) or before the
\* call (NextGenClient(NextGenConfig(...))).
NextGenClientNew(c, wrapped) ==
    IF Raised(c.exc)
    THEN [config |-> NoConfig, opened |-> {},
          exc |-> IF wrapped THEN Exc("ConfigurationError", None) ELSE c.exc]
    ELSE [config |-> c.config, opened |-> OAuthNew(ConfigAttrs).opened, exc |-> NoExc]

\* The state after the construction c of a client from args.
NewClient(args, source, c) ==
    /\ config = c.config
    /\ tm = OAuthInit
    /\ now = 0
    /\ master_service = None
    /\ sessions = Opened(NoSessions, "client", c.opened)
    /\ callers = NoCallers
    /\ granted = None
    /\ last = [op |-> "NextGenClient", args |-> args, source |-> source, exc |-> c.exc,
               http |-> <<>>]

ClientInit == \E args \in ConfigArgs :
    \/ NewClient(args, "argument", NextGenClientNew(NextGenConfigNew(args), FALSE))
    \/ NewClient(args, "environment", NextGenClientNew(load_config(args), TRUE))

\* NextGenClient.authenticate: the result of oauth_client.authenticate(),
\* returned; an exception would be raised again.
client_authenticate(t, r, clock) == authenticate(t, r, clock)

\* client.authenticate().  requests refuses a URL without a scheme before
\* it sends anything.
ClientAuthenticate ==
    /\ last = Idle
    /\ Built
    /\ \E r \in ClientTokenResponses :
        /\ config.token_url = <<>> => r.kind = "transport"
        /\ Completes("client_authenticate", client_authenticate(tm, r, now),
                     client_authenticate(tm, r, now).value, None,
                     TokenPosts(client_authenticate(tm, r, now).refreshes), NoResp)

\* s[:n]
Prefix(s, n) == SubSeq(s, 1, IF Len(s) < n THEN Len(s) ELSE n)

\* NextGenClient.get_client_info
get_client_info(t, clock) ==
    [base_url |-> config.base_url,
     client_id |-> IF config.client_id # <<>>
                   THEN Some(Prefix(config.client_id, MaskLen) \o <<".", ".", ".">>)
                   ELSE None,
     site_id |-> config.site_id,
     grant_type |-> config.grant_type,
     is_authenticated |-> is_authenticated(t, clock),
     timeout |-> config.timeout,
     max_retries |-> config.max_retries]

\* client.get_client_info()
GetClientInfo ==
    /\ last = Idle
    /\ Built
    /\ last' = [op |-> "get_client_info", pre |-> tm, exc |-> NoExc,
                info |-> get_client_info(tm, now), http |-> <<>>]
    /\ UNCHANGED <<config, tm, now, master_service, sessions, granted, callers>>

\* NextGenClient.close: closes the session of the client's oauth_client.
close(s) == [s EXCEPT ![<<"client", "oauth_client._session">>] = "closed"]

\* client.close(), or the end of a with block, left by return or by an
\* exception (__exit__ calls close and does not swallow the exception).
Close ==
    /\ last = Idle
    /\ Built
    /\ \E how \in {"close", "exit", "exit_on_exception"} :
        last' = [op |-> "close", how |-> how, pre |-> tm, exc |-> NoExc, http |-> <<>>]
    /\ sessions' = close(sessions)
    /\ UNCHANGED <<config, tm, now, master_service, granted, callers>>

ClientNext ==
    \/ ClientAuthenticate
    \/ GetClientInfo
    \/ ClientGetCodes
    \/ TestConnection
    \/ Close
    \/ Tick
    \/ Return

ClientSpec == ClientInit /\ [][ClientNext]_vars

----------------------------------------------------------------------------
(* ConcurrentSpec: two threads call get_auth_headers() on one token        *)
(* manager whose token is absent, or expired (issued at time 0 with        *)
(* expires_in 0).  A thread runs the method in steps, and the steps of the *)
(* two threads interleave: the test of _should_refresh_token, the token    *)
(* POST, the assignment of _access_token, the assignment of                *)
(* _token_expiration, and the read of _access_token that ends the          *)
(* access_token property.  get_auth_headers() reads the property twice     *)
(* (read 1 for its test, read 2 for the header).                           *)

\* The token endpoint under concurrent callers: a refusal, a body without
\* access_token, the token t1 for MaxExpiresIn seconds, the token t2 without
\* expires_in.
ConcurrentTokenResponses ==
    {TokenResp("http", 500, "invalid", None, "absent", 0),
     TokenResp("http", 200, "object", None, "absent", 0),
     TokenResp("http", 200, "object", Some("t1"), "int", MaxExpiresIn),
     TokenResp("http", 200, "object", Some("t2"), "absent", 0)}

ExpiredAtStart == [_access_token |-> Some("t0"), _token_expiration |-> Some(0)]

ConcurrentInit ==
    \/ Constructed(DefaultConfig)
    \/ /\ config = DefaultConfig
       /\ tm = ExpiredAtStart
       /\ now = 0
       /\ master_service = None
       /\ sessions = Opened(Opened(NoSessions, "client", OAuthNew(ConfigAttrs).opened),
                             "service", BaseServiceNew(ConfigAttrs, TRUE).opened)
       /\ callers = NoCallers
       /\ granted = Some([at |-> 0, expires_in |-> 0])
       /\ last = Idle

\* The number of refreshes completed so far, by any thread.
RECURSIVE Completed(_, _)
Completed(cs, threads) ==
    IF threads = {} THEN 0
    ELSE LET c == CHOOSE x \in threads : TRUE
         IN  Len(cs[c].refreshed) + Completed(cs, threads \ {c})

\* Thread c leaves get_auth_headers() with exception e.
Raises(c, e) == [callers EXCEPT ![c].pc = "done", ![c].exc = e]

\* Thread c calls get_auth_headers(): the first read of the property begins.
CallHeaders(c) ==
    /\ callers[c].pc = "idle"
    /\ callers' = [callers EXCEPT ![c].pc = "check", ![c].read = 1]
    /\ UNCHANGED <<config, tm, now, master_service, sessions, granted, last>>

\* access_token: if self._should_refresh_token()
Check(c) ==
    /\ callers[c].pc = "check"
    /\ callers' = [callers EXCEPT ![c].pc = IF _should_refresh_token(tm, now)
                                            THEN "post" ELSE "read"]
    /\ UNCHANGED <<config, tm, now, master_service, sessions, granted, last>>

\* _refresh_token: the POST and its response r; a response that is not a 200
\* with a JSON object raises.
Post(c) ==
    /\ callers[c].pc = "post"
    /\ \E r \in ConcurrentTokenResponses :
        callers' =
            IF r.kind = "transport" \/ r.status # 200 \/ r.body # "object"
            THEN [Raises(c, Exc("AuthenticationError", None)) EXCEPT
                    ![c].posts = Append(@, r)]
            ELSE [callers EXCEPT ![c].pc = "set_token", ![c].resp = r,
                                 ![c].posts = Append(@, r)]
    /\ UNCHANGED <<config, tm, now, master_service, sessions, granted, last>>

\* _refresh_token: self._access_token = token_data.get('access_token'), and
\* the raise if it is missing.
SetToken(c) ==
    /\ callers[c].pc = "set_token"
    /\ tm' = [tm EXCEPT !._access_token = callers[c].resp.access_token]
    /\ callers' = IF ~Truthy(callers[c].resp.access_token)
                  THEN Raises(c, Exc("AuthenticationError", None))
                  ELSE [callers EXCEPT ![c].pc = "set_expiry"]
    /\ granted' = IF tm' = tm THEN granted ELSE None
    /\ UNCHANGED <<config, now, master_service, sessions, last>>

\* _refresh_token: self._token_expiration = datetime.now() + timedelta(...);
\* the refresh is complete.
SetExpiry(c) ==
    /\ callers[c].pc = "set_expiry"
    /\ tm' = [tm EXCEPT !._token_expiration = Some(now + expires_in(callers[c].resp))]
    /\ callers' = [callers EXCEPT
                      ![c].pc = "read",
                      ![c].refreshed =
                          Append(@, [resp |-> callers[c].resp, at |-> now,
                                     order |-> Completed(callers, Callers) + 1])]
    /\ granted' = Some([at |-> now, expires_in |-> expires_in(callers[c].resp)])
    /\ UNCHANGED <<config, now, master_service, sessions, last>>

\* access_token: return self._access_token.  The first value read is tested
\* by get_auth_headers, the second one is formatted into the header.
Read(c) ==
    /\ callers[c].pc = "read"
    /\ callers' =
        IF callers[c].read = 1
        THEN IF ~Truthy(tm._access_token)
             THEN [Raises(c, Exc("AuthenticationError", None)) EXCEPT
                     ![c].value = tm._access_token]
             ELSE [callers EXCEPT ![c].pc = "check", ![c].read = 2,
                                  ![c].value = tm._access_token]
        ELSE [callers EXCEPT ![c].pc = "done", ![c].value = tm._access_token,
                             ![c].headers = Some(AuthHeaders(tm._access_token))]
    /\ UNCHANGED <<config, tm, now, master_service, sessions, granted, last>>

ConcurrentNext == \E c \in Callers :
    \/ CallHeaders(c)
    \/ Check(c)
    \/ Post(c)
    \/ SetToken(c)
    \/ SetExpiry(c)
    \/ Read(c)

ConcurrentSpec == ConcurrentInit /\ [][ConcurrentNext]_vars

----------------------------------------------------------------------------
(* Properties *)

TokenPostCount(http) == Cardinality({i \in 1..Len(http) : http[i].to = "token"})
DataRequestCount(http) == Cardinality({i \in 1..Len(http) : http[i].to = "data"})

\* The token state is EXPIRED: a usable token whose expiry has been reached.
Expired(t, clock) ==
    Truthy(t._access_token) /\ t._token_expiration # None /\ _is_token_expired(t, clock)

\* The Authorization value for a token.
Bearer(token) == <<"Bearer ">> \o token

\* Kinds of token-endpoint response.
Issues(r) ==
    r.kind = "http" /\ r.status = 200 /\ r.body = "object" /\ Truthy(r.access_token)
    /\ r.exp_kind # "bad"
LacksToken(r) ==
    r.kind = "http" /\ r.status = 200 /\ r.body = "object" /\ r.access_token = None
Refused(r) == r.kind = "transport" \/ (r.kind = "http" /\ r.status # 200)

\* Kinds of data-endpoint response.
Failure(d) ==
    d.kind \in DataTransportKinds
    \/ (d.kind = "http" /\ ~(200 <= d.status /\ d.status < 300))

(* C1: a call of get_auth_headers() either raises AuthenticationError or   *)
(* returns the Authorization header of the cached token, and the cached    *)
(* expiry is then strictly after the current time.                         *)
C1_HeaderTokenIsValid ==
    last.op = "get_auth_headers" =>
        IF Raised(last.exc)
        THEN last.exc.type = "AuthenticationError"
        ELSE /\ last.headers # None
             /\ last.headers[1]["Authorization"] = Bearer(tm._access_token)
             /\ tm._token_expiration # None
             /\ tm._token_expiration[1] > now

(* C2: a refresh (made by get_auth_headers() or authenticate()) whose 200   *)
(* response has no access_token raises AuthenticationError and leaves the  *)
(* cached token and expiry exactly as they were.                           *)
C2_MissingTokenKeepsState ==
    last.op \in {"get_auth_headers", "authenticate"} =>
        \A i \in 1..Len(last.refreshes) :
            LacksToken(last.refreshes[i].resp) =>
                /\ last.refreshes[i].exc.type = "AuthenticationError"
                /\ last.refreshes[i].post = last.refreshes[i].pre

(* C3: in every reachable state a cached token is present only if a cached *)
(* expiry is present, and every refresh either leaves the pair as it was   *)
(* or sets both from its own response.                                     *)
C3_PairIsAtomic ==
    /\ tm._access_token # None => tm._token_expiration # None
    /\ last # Idle =>
        \A i \in 1..Len(last.refreshes) :
            \/ last.refreshes[i].post = last.refreshes[i].pre
            \/ /\ ~Raised(last.refreshes[i].exc)
               /\ last.refreshes[i].post =
                    [_access_token |-> last.refreshes[i].resp.access_token,
                     _token_expiration |->
                        Some(now + expires_in(last.refreshes[i].resp))]

(* C4: in every reachable state, a data call through a service of the      *)
(* client (client.master.get_codes()) that the data endpoint answers with  *)
(* 401 raises ClientError or AuthenticationError and leaves the client's   *)
(* is_authenticated false.                                                 *)
C4_Rejected401Invalidates ==
    \A r1, r2 \in TokenResponses, b \in {"object", "text"} :
        /\ client_get_codes(master_service, tm, <<r1, r2>>,
                            DataResp("http", 401, b, <<>>), now).exc.type
              \in {"ClientError", "AuthenticationError"}
        /\ ~is_authenticated(client_get_codes(master_service, tm, <<r1, r2>>,
                                              DataResp("http", 401, b, <<>>), now).tm,
                             now)

(* C5: in every reachable state, against a token endpoint that issues a    *)
(* token and a /master/codes endpoint that answers 200 with a JSON list,   *)
(* client.test_connection() returns True and client.master.get_codes()     *)
(* returns a response whose total_count is the length of the list.         *)
C5_HealthyApiConnects ==
    \A r1, r2 \in {r \in TokenResponses : Issues(r)}, l \in Lists :
        /\ test_connection(master_service, tm, <<r1, r2>>,
                           DataResp("http", 200, "list", l), now).value = TRUE
        /\ ~Raised(client_get_codes(master_service, tm, <<r1, r2>>,
                                    DataResp("http", 200, "list", l), now).exc)
        /\ client_get_codes(master_service, tm, <<r1, r2>>,
                            DataResp("http", 200, "list", l), now).codes.total_count
              = Len(l)

(* C6: a data call made when the token, obtained with a positive           *)
(* expires_in, has expired issues exactly one token POST, before the data  *)
(* request, and the data request carries the token that POST obtained; the *)
(* first data call after construction carries the token the token endpoint *)
(* returned.                                                               *)
C6_OneRefreshThenRequest ==
    (last.op = "make_request" /\ DataRequestCount(last.http) > 0) =>
        /\ (/\ Expired(last.pre, now)
            /\ last.lease # None
            /\ last.lease[1].expires_in > 0)
           => /\ TokenPostCount(last.http) = 1
              /\ last.http[1].to = "token"
              /\ last.http[2].to = "data"
              /\ last.http[2].headers["Authorization"]
                    = Bearer(last.refreshes[1].resp.access_token)
        /\ last.pre = OAuthInit
           => /\ TokenPostCount(last.http) >= 1
              /\ last.http[Len(last.http)].to = "data"
              /\ last.http[Len(last.http)].headers["Authorization"] =
                    Bearer(last.refreshes[Len(last.refreshes)].resp.access_token)

(* C7: one get_auth_headers() call, or one _make_request call, issues at   *)
(* most one POST to the token endpoint.                                    *)
C7_AtMostOneRefresh ==
    last.op \in {"get_auth_headers", "make_request"} =>
        TokenPostCount(last.http) <= 1

(* C8: a _make_request call sends at most one request to the data          *)
(* endpoint; when that request fails (401, another error status, a         *)
(* transport failure) it was sent once and the call raises.                *)
C8_NoRetry ==
    last.op = "make_request" =>
        /\ DataRequestCount(last.http) <= 1
        /\ Failure(last.data) =>
              /\ DataRequestCount(last.http) = 1
              /\ Raised(last.exc)

C8_Witness ==
    /\ last.op = "make_request"
    /\ last.data.kind = "http"
    /\ last.data.status = 401
    /\ DataRequestCount(last.http) = 1
    /\ last.exc.type = "ClientError"

(* C9: is_authenticated is true exactly when a token is cached and its     *)
(* expiry is strictly in the future; after a successful refresh at T with  *)
(* expires_in n it is true before T+n and false from T+n on; reading it    *)
(* sends nothing and leaves the token state as it was.                     *)
C9_IsAuthenticated ==
    last.op = "is_authenticated" =>
        /\ last.value = (/\ tm._access_token # None
                         /\ tm._token_expiration # None
                         /\ tm._token_expiration[1] > now)
        /\ last.lease # None =>
              last.value = (now < last.lease[1].at + last.lease[1].expires_in)
        /\ last.http = <<>>
        /\ tm = last.pre

C9_Witness ==
    /\ last.op = "is_authenticated"
    /\ last.lease # None
    /\ last.lease[1].expires_in > 0
    /\ now = last.lease[1].at + last.lease[1].expires_in
    /\ last.value = FALSE

(* C10: a refresh that gets a non-200 response, or whose request fails in  *)
(* transport, raises AuthenticationError and leaves the cached token and   *)
(* expiry as they were; a header request failing that way leaves the       *)
(* manager in the state it was in.                                         *)
C10_RefusedRefreshKeepsState ==
    last # Idle =>
        /\ \A i \in 1..Len(last.refreshes) :
              Refused(last.refreshes[i].resp) =>
                  /\ last.refreshes[i].exc.type = "AuthenticationError"
                  /\ last.refreshes[i].post = last.refreshes[i].pre
        /\ (/\ last.op = "get_auth_headers"
            /\ Len(last.refreshes) = 1
            /\ Refused(last.refreshes[1].resp))
           => /\ last.exc.type = "AuthenticationError"
              /\ tm = last.pre

C10_Witness ==
    /\ last.op = "get_auth_headers"
    /\ Len(last.refreshes) = 1
    /\ last.refreshes[1].resp.kind = "transport"
    /\ Expired(last.pre, now)
    /\ last.exc.type = "AuthenticationError"
    /\ tm = last.pre

(* C11: revoke_token(), called in any token state, leaves the cached token *)
(* and the cached expiry absent, sends no HTTP request, and                *)
(* is_authenticated is false right after it.                               *)
C11_RevokeClears ==
    last.op = "revoke_token" =>
        /\ tm._access_token = None
        /\ tm._token_expiration = None
        /\ last.http = <<>>
        /\ ~is_authenticated(tm, now)

C11_Witness ==
    /\ last.op = "revoke_token"
    /\ is_authenticated(last.pre, now)
    /\ tm = OAuthInit

\* The data request of a _make_request call that sent one.
Sent(http) == http[Len(http)]
SentData(r) == r.op = "make_request" /\ r.data # NoResp
Success(d) == d.kind = "http" /\ 200 <= d.status /\ d.status < 300

\* The exception class the status table gives a status outside 200-299.
Classified(status) ==
    IF status \in {401, 403, 404} THEN "ClientError"
    ELSE IF status = 429 THEN "RateLimitError"
    ELSE IF 400 <= status /\ status < 500 THEN "ClientError"
    ELSE IF 500 <= status /\ status < 600 THEN "ServerError"
    ELSE "NextGenAPIError"

(* C12: a data response with a status outside 200-299, whatever its body   *)
(* (JSON object with or without 'message', JSON non-object, text, empty),  *)
(* raises the class of the status table: ClientError for 401, 403, 404,    *)
(* RateLimitError for 429, ClientError for any other 4xx and ServerError   *)
(* for 5xx with the server's message if there is one and a generic one     *)
(* otherwise, NextGenAPIError for any other status; a transport or timeout *)
(* failure of the data call raises NetworkError.                           *)
C12_StatusClassification ==
    SentData(last) =>
        /\ last.data.kind \in DataTransportKinds => last.exc.type = "NetworkError"
        /\ (last.data.kind = "http" /\ ~Success(last.data)) =>
              /\ last.exc.type = Classified(last.data.status)
              /\ last.data.status \in {418, 500} =>
                    last.exc.message =
                        IF last.data.body = "message" THEN "server" ELSE "generic"

(* C13: a 200-299 data response is returned as the decoded JSON body when  *)
(* its content-type contains application/json, and as the raw response     *)
(* text, without an exception, when it does not.                           *)
C13_ContentTypeDecides ==
    (SentData(last) /\ Success(last.data)) =>
        /\ (last.data.content_type = "application/json"
             /\ last.data.body \in JsonBodies)
            => /\ ~Raised(last.exc)
               /\ last.payload = Payload(last.data.body, last.data.items)
        /\ last.data.content_type # "application/json"
            => /\ ~Raised(last.exc)
               /\ last.payload = Payload("raw_text", last.data.items)

(* C14: a 200-299 data response that declares a JSON content-type and      *)
(* whose body fails JSON parsing is not returned: the call raises          *)
(* NextGenAPIError carrying the response's status code and its raw body.   *)
C14_BadJsonRaises ==
    (/\ SentData(last)
     /\ Success(last.data)
     /\ last.data.content_type = "application/json"
     /\ last.data.body \notin JsonBodies)
    => /\ last.exc.type = "NextGenAPIError"
       /\ last.exc.status_code = Some(last.data.status)
       /\ last.exc.response_data = Data("raw_content", last.data.body, last.data.items)
       /\ last.payload = NoPayload

C14_Witness ==
    /\ SentData(last)
    /\ last.data.status = 201
    /\ last.data.content_type = "application/json"
    /\ last.data.body = "text"
    /\ last.exc.type = "NextGenAPIError"
    /\ last.exc.response_data.kind = "raw_content"

\* The token the manager holds when the data request is sent.
TokenAtSend(r) ==
    IF r.refreshes = <<>> THEN r.pre._access_token
    ELSE r.refreshes[Len(r.refreshes)].post._access_token

\* A JSON body is given and sent.
JsonBody(c) == c.json_data /\ ~c.data

\* The headers in increasing precedence: library defaults, auth headers,
\* the caller's headers, the Content-Type of a JSON body.
ByPrecedence(c, auth) ==
    Update(Update(Update(SessionHeaders, auth), c.headers),
           IF JsonBody(c)
           THEN [k \in {"Content-Type"} |-> Str("application/json")]
           ELSE <<>>)

(* C16: the headers sent on a data request are, name by name, the value of *)
(* the highest layer that has the name: library defaults, then auth        *)
(* headers, then the caller's headers, then Content-Type: application/json *)
(* when a JSON body is present.                                            *)
C16_HeaderPrecedence ==
    (SentData(last) /\ ~last.call.data) =>
        Sent(last.http).headers = ByPrecedence(last.call, AuthHeaders(TokenAtSend(last)))

(* C17 as stated: every data request carries Authorization: Bearer <the    *)
(* token cached when it is sent>, the token present and not empty, and     *)
(* carries x-ng-sessionid exactly when a session id is configured.         *)
C17_EveryRequestAuthorized ==
    SentData(last) =>
        /\ Truthy(TokenAtSend(last))
        /\ Sent(last.http).headers["Authorization"] = Bearer(TokenAtSend(last))
        /\ "x-ng-sessionid" \in DOMAIN Sent(last.http).headers
              <=> Truthy(config.x_ng_session_id)

(* C17, amended: every data request of a call whose additional headers     *)
(* name neither Authorization nor x-ng-sessionid carries Authorization:    *)
(* Bearer <the token cached when it is sent>, the token present and not    *)
(* empty, and carries x-ng-sessionid, with the configured value, exactly   *)
(* when a non-empty session id is configured.                              *)
C17_RequestAuthorized ==
    (/\ SentData(last)
     /\ DOMAIN last.call.headers \cap {"Authorization", "x-ng-sessionid"} = {})
    => /\ Truthy(TokenAtSend(last))
       /\ Sent(last.http).headers["Authorization"] = Bearer(TokenAtSend(last))
       /\ "x-ng-sessionid" \in DOMAIN Sent(last.http).headers
             <=> (config.x_ng_session_id # None /\ config.x_ng_session_id # Some(""))
       /\ "x-ng-sessionid" \in DOMAIN Sent(last.http).headers
             => Sent(last.http).headers["x-ng-sessionid"] = config.x_ng_session_id

C17_Witness ==
    /\ SentData(last)
    /\ last.call.headers = NoHeaders
    /\ config.x_ng_session_id = Some("s1")
    /\ Len(last.refreshes) = 2
    /\ Sent(last.http).headers["Authorization"] = <<"Bearer ", "t1">>
    /\ Sent(last.http).headers["x-ng-sessionid"] = <<"s1">>

\* str.rstrip('/')
RECURSIVE rstrip(_)
rstrip(s) ==
    IF s # <<>> /\ s[Len(s)] = "/" THEN rstrip(SubSeq(s, 1, Len(s) - 1)) ELSE s

\* The base and the endpoint joined by exactly one slash.
JoinedByOneSlash(base_url, endpoint) ==
    rstrip(base_url) \o <<"/">> \o lstrip(endpoint)

(* C15: for every base URL, with or without a trailing slash, and every    *)
(* endpoint path, with or without leading slashes, _build_url returns the  *)
(* base and the endpoint joined by exactly one slash.                      *)
C15_JoinedByOneSlash ==
    last.op = "_build_url" =>
        last.url = JoinedByOneSlash(config.base_url, last.endpoint)

(* C18: every refresh sends one form-encoded POST to the configured token  *)
(* URL with the fields client_id, client_secret, site_id and grant_type,   *)
(* and with the fields username and password exactly when grant_type is    *)
(* 'password'.                                                             *)
C18_TokenRequestForm ==
    last.op = "authenticate" =>
        /\ Len(last.http) = 1
        /\ \A i \in 1..Len(last.http) :
              /\ last.http[i].to = "token"
              /\ last.http[i].method = "POST"
              /\ last.http[i].url = config.token_url
              /\ last.http[i].headers["Content-Type"]
                    = Str("application/x-www-form-urlencoded")
              /\ \A k \in {"client_id", "client_secret", "site_id", "grant_type"} :
                    /\ k \in DOMAIN last.http[i].fields
                    /\ last.http[i].fields[k] = config[k]
              /\ {"username", "password"} \subseteq DOMAIN last.http[i].fields
                    <=> config.grant_type = "password"
              /\ {"username", "password"} \cap DOMAIN last.http[i].fields = {}
                    <=> config.grant_type # "password"

\* The classes of nextgen_exceptions.py.
Typed ==
    {"NextGenAPIError", "AuthenticationError", "TokenExpiredError",
     "ConfigurationError", "ValidationError", "RateLimitError", "ServerError",
     "ClientError", "NetworkError"}

(* C19: every failure caused by an HTTP response, a non-2xx response of a  *)
(* data endpoint or a non-200 response of the token endpoint, is raised as *)
(* a NextGenAPIError subclass whose status_code is the response's status   *)
(* and whose response_data holds the response body.                        *)
C19_ErrorsCarryResponse ==
    last.op \in {"get_auth_headers", "make_request"} =>
        /\ \A i \in 1..Len(last.refreshes) :
              (/\ last.refreshes[i].resp.kind = "http"
               /\ last.refreshes[i].resp.status # 200)
              => /\ last.exc.type \in Typed
                 /\ last.exc.status_code = Some(last.refreshes[i].resp.status)
                 /\ last.exc.response_data # NoData
        /\ (/\ last.op = "make_request"
            /\ last.data.kind = "http"
            /\ ~Success(last.data))
           => /\ last.exc.type \in Typed
              /\ last.exc.status_code = Some(last.data.status)
              /\ last.exc.response_data = error_data(last.data)

\* The call had an empty or invalid required argument.
Invalid(method, a1, a2) ==
    \/ a1 \in {None, Some("")}
    \/ method \in {"verify_identity_challenge", "verify_mfa_code"}
        /\ a2 \in {None, Some("")}
    \/ method = "initiate_mfa" /\ a2 = Some("fax")

(* C20: a call of a service method (get_code_details, search_codes,        *)
(* verify_identity_challenge, get_challenge_status, initiate_mfa,          *)
(* verify_mfa_code, get_auth_methods, validate_session, logout_session)    *)
(* with an empty or invalid required argument raises ValidationError, has  *)
(* sent no HTTP request to the token endpoint or to a data endpoint, and   *)
(* leaves the token state as it was.                                       *)
C20_ValidationFirst ==
    (/\ last.op = "service_method"
     /\ Invalid(last.method, last.args[1], last.args[2]))
    => /\ last.exc.type = "ValidationError"
       /\ last.http = <<>>
       /\ last.refreshes = <<>>
       /\ tm = last.pre

C20_Witness ==
    /\ last.op = "service_method"
    /\ last.method = "initiate_mfa"
    /\ last.args = <<Some("x"), Some("fax")>>
    /\ Expired(last.pre, now)
    /\ last.exc.type = "ValidationError"
    /\ last.http = <<>>
    /\ tm = last.pre

\* A required field of the configuration values is empty.
EmptyRequired(args) == \E f \in RequiredFields : args[f] = EmptyValue(f)

(* C21: the construction of a configuration with an empty value for a      *)
(* required field (client_id, client_secret, site_id, base_url, token_url,  *)
(* grant_type) raises; no client and no token manager is built from such   *)
(* values, and nothing is sent with them.                                  *)
C21_EmptyFieldRefused ==
    /\ (last.op = "NextGenClient" /\ EmptyRequired(last.args))
        => /\ Raised(last.exc)
           /\ ~Built
           /\ sessions = NoSessions
    /\ Built => ~EmptyRequired(config)
    /\ (last # Idle /\ ~Built) => last.http = <<>>

(* C22: after client.close(), or after a with block on the client is left *)
(* by return or by an exception, no session created by the client, by its  *)
(* token manager or by a service obtained from the client is open.         *)
C22_AllSessionsClosed ==
    last.op = "close" =>
        \A n \in DOMAIN sessions :
            n[1] \in {"client", "master"} => sessions[n] # "open"

\* Every thread has left its call.
Quiescent == \A c \in Callers : callers[c].pc = "done"

\* The tokens the token endpoint has issued to the callers.
IssuedTokens ==
    UNION {{callers[c].posts[i].access_token : i \in 1..Len(callers[c].posts)} :
              c \in Callers} \ {None, Some("")}

\* The refreshes the callers have completed.
CompletedRefreshes ==
    UNION {{callers[c].refreshed[i] : i \in 1..Len(callers[c].refreshed)} : c \in Callers}

\* The token state a completed refresh f is to leave.
PairOf(f) ==
    [_access_token |-> f.resp.access_token,
     _token_expiration |-> Some(f.at + expires_in(f.resp))]

(* C23: under every interleaving of two concurrent get_auth_headers()      *)
(* calls on a token manager whose token is absent or expired, a caller     *)
(* that has returned either raised AuthenticationError or holds the header *)
(* of a token that a refresh was issued (never 'Bearer None'), and once    *)
(* both have returned the cached token and expiry are those of the refresh *)
(* that completed last.                                                    *)
C23_NoCorruption ==
    /\ \A c \in Callers :
          callers[c].pc = "done" =>
              IF Raised(callers[c].exc)
              THEN callers[c].exc.type = "AuthenticationError"
              ELSE /\ callers[c].value \in IssuedTokens
                   /\ callers[c].headers[1]["Authorization"] = Bearer(callers[c].value)
    /\ Quiescent =>
          \A f \in CompletedRefreshes :
              (\A g \in CompletedRefreshes : g.order <= f.order) => tm = PairOf(f)

(* C24: client.authenticate() returns True when its token refresh          *)
(* succeeds, and raises a NextGenAPIError when it fails (a non-200 token    *)
(* response, a body without access_token, a transport failure); a failed   *)
(* authentication is never reported by a normal return.                    *)
C24_AuthenticateRaises ==
    last.op = "client_authenticate" =>
        IF Raised(last.refreshes[1].exc)
        THEN /\ Raised(last.exc)
             /\ last.exc.type \in Typed
        ELSE /\ ~Raised(last.exc)
             /\ last.value = TRUE

\* The response r carries a token and, if it carries expires_in, a number.
Grants(r) ==
    r.kind = "http" /\ r.status = 200 /\ r.body = "object" /\ Truthy(r.access_token)
    /\ r.exp_kind \in {"absent", "int"}

\* The token state {token, expiry} a granting response r is to leave at clock.
GrantedPair(r, clock) ==
    [_access_token |-> r.access_token,
     _token_expiration |->
        Some(clock + (IF r.exp_kind = "absent" THEN DefaultExpiresIn ELSE r.expires_in))]

(* C25: a refresh that receives 200 with access_token t and expires_in n   *)
(* at time T leaves the cached state exactly {t, T + n}, and {t, T + 3600}  *)
(* when the body has no expires_in; a call of authenticate() or            *)
(* get_auth_headers() whose last refresh was such a one leaves the manager *)
(* in that state.                                                          *)
C25_RefreshSetsPair ==
    last.op \in {"authenticate", "get_auth_headers", "make_request"} =>
        /\ \A i \in 1..Len(last.refreshes) :
              Grants(last.refreshes[i].resp) =>
                  /\ ~Raised(last.refreshes[i].exc)
                  /\ last.refreshes[i].post = GrantedPair(last.refreshes[i].resp, now)
        /\ (/\ last.op # "make_request"
            /\ last.refreshes # <<>>
            /\ Grants(last.refreshes[Len(last.refreshes)].resp))
           => tm = GrantedPair(last.refreshes[Len(last.refreshes)].resp, now)

C25_Witness ==
    /\ last.op = "authenticate"
    /\ last.pre._access_token = Some("t1")
    /\ last.refreshes[1].resp.access_token = Some("t2")
    /\ last.refreshes[1].resp.exp_kind = "absent"
    /\ now > 0
    /\ tm = [_access_token |-> Some("t2"), _token_expiration |-> Some(now + DefaultExpiresIn)]

\* The text s begins with the text p.
StartsWith(s, p) == Len(p) <= Len(s) /\ SubSeq(s, 1, Len(p)) = p

(* C26: the dict returned by get_client_info() holds no sensitive data: no *)
(* client_secret, no cached access token, and not the complete client_id,  *)
(* whatever its length.                                                    *)
C26_NoSensitiveData ==
    last.op = "get_client_info" =>
        /\ DOMAIN last.info \cap {"client_secret", "access_token"} = {}
        /\ \A k \in {"site_id", "grant_type"} : last.info[k] # config.client_secret
        /\ tm._access_token # None =>
              /\ last.info.base_url # Str(tm._access_token[1])
              /\ last.info.client_id # Some(Str(tm._access_token[1]))
        /\ last.info.client_id # None =>
              ~StartsWith(last.info.client_id[1], config.client_id)

\* A token is cached and its expiry is after the current time.
ValidToken(t, clock) ==
    /\ t._access_token # None
    /\ t._token_expiration # None
    /\ t._token_expiration[1] > clock

\* No token is cached, or the cached expiry is at or before the current time.
Stale(t, clock) ==
    \/ t._access_token = None
    \/ t._token_expiration # None /\ t._token_expiration[1] <= clock

(* C27: a call of get_auth_headers() issues a POST to the token endpoint   *)
(* exactly when, at the call, no token is cached or the cached expiry is   *)
(* at or before the current time; with a valid cached token it issues no   *)
(* HTTP request, leaves the token state as it was and returns the cached   *)
(* token; and no call other than a header request (on its own or inside a *)
(* data call) or authenticate() makes a refresh.                           *)
C27_RefreshOnlyWhenNeeded ==
    /\ last.op = "get_auth_headers" =>
          /\ (TokenPostCount(last.http) >= 1) <=> Stale(last.pre, now)
          /\ ValidToken(last.pre, now) =>
                /\ last.http = <<>>
                /\ tm = last.pre
                /\ ~Raised(last.exc)
                /\ last.headers[1]["Authorization"] = Bearer(last.pre._access_token)
    /\ (last # Idle /\ last.refreshes # <<>>) =>
          last.op \in {"get_auth_headers", "authenticate", "make_request"}

(* C28: when a refresh made inside a data call fails, the call raises the  *)
(* AuthenticationError of that refresh, unchanged, and sends no request to *)
(* the data endpoint.                                                      *)
C28_RefreshFailurePropagates ==
    last.op = "make_request" =>
        \A i \in 1..Len(last.refreshes) :
            Raised(last.refreshes[i].exc) =>
                /\ last.exc = last.refreshes[i].exc
                /\ last.exc.type = "AuthenticationError"
                /\ DataRequestCount(last.http) = 0
                /\ last.data = NoResp

C28_Witness ==
    /\ last.op = "make_request"
    /\ Expired(last.pre, now)
    /\ Len(last.refreshes) = 1
    /\ last.refreshes[1].resp.status = 500
    /\ last.exc.type = "AuthenticationError"
    /\ TokenPostCount(last.http) = 1
    /\ DataRequestCount(last.http) = 0

\* The data call m that follows a rejected one: if it sends a data request,
\* a token POST comes first and the request carries the token of the call's
\* last POST.
RefreshedFirst(m) ==
    DataRequestCount(m.http) > 0 =>
        /\ m.refreshes # <<>>
        /\ m.http[1].to = "token"
        /\ Sent(m.http).to = "data"
        /\ Sent(m.http).headers["Authorization"]
              = Bearer(m.refreshes[Len(m.refreshes)].resp.access_token)

\* The token responses of the following call: failures, a token that is
\* expired at once, lasting ones, and one without expires_in.
FollowingTokenResponses ==
    {TokenResp("http", 500, "invalid", None, "absent", 0),
     TokenResp("http", 200, "object", None, "absent", 0),
     TokenResp("http", 200, "object", Some("t1"), "int", 0),
     TokenResp("http", 200, "object", Some("t1"), "int", MaxExpiresIn),
     TokenResp("http", 200, "object", Some("t2"), "absent", 0)}

\* The data response of the following call; the request is sent before it.
FollowingResponses == {DataResp("http", 200, "object", <<>>)}

(* C29: once a data call on a service has received 401, the next data call *)
(* on that service, whenever it is made and whatever the endpoints answer, *)
(* issues a POST to the token endpoint before its data request, and the    *)
(* data request carries the token that call obtained, not the cached one   *)
(* that was rejected.                                                      *)
C29_RefreshAfter401 ==
    (/\ last.op = "make_request"
     /\ last.data.kind = "http"
     /\ last.data.status = 401)
    => \A clock \in now..MaxTime, r1, r2 \in FollowingTokenResponses, d \in FollowingResponses :
          RefreshedFirst(_make_request(GetCodesCall, tm, <<r1, r2>>, d, clock))

C29_Witness ==
    /\ last.op = "make_request"
    /\ last.data.kind = "http"
    /\ last.data.status = 401
    /\ last.refreshes = <<>>
    /\ TokenAtSend(last) = Some("t1")
    /\ Sent(_make_request(GetCodesCall, tm,
                          <<TokenResp("http", 200, "object", Some("t2"), "absent", 0), Unused>>,
                          DataResp("http", 200, "object", <<>>), now).http)
          .headers["Authorization"] = <<"Bearer ", "t2">>

\* A completed call r that sent its data request and got an answer.
DataCall(r) == r.op \in {"make_request", "service_method"} /\ r.data # NoResp

\* The token and expiry the manager holds when r's data request is sent.
StateAtSend(r) ==
    IF r.refreshes = <<>> THEN r.pre ELSE r.refreshes[Len(r.refreshes)].post

Unauthorized(d) == d.kind = "http" /\ d.status = 401

(* C30: a data call answered by anything but a 401 response (a 2xx with   *)
(* or without readable JSON, 403, 404, 429, another 4xx, a 5xx, another    *)
(* status, a transport failure) leaves the cached token and expiry as they *)
(* were when the data request was sent; a 401 response clears both.        *)
C30_OnlyUnauthorizedClears ==
    DataCall(last) =>
        IF Unauthorized(last.data)
        THEN tm = [_access_token |-> None, _token_expiration |-> None]
        ELSE tm = StateAtSend(last)

C30_Witness ==
    /\ DataCall(last)
    /\ last.data.kind \in DataTransportKinds
    /\ last.exc.type = "NetworkError"
    /\ tm._access_token = Some("t1")
    /\ tm._token_expiration # None
    /\ tm = StateAtSend(last)

====
